---- MODULE Spec2Model ----
(***************************************************************************)
(* qsitelinks (src/main.rs): builds the mapping from Wikimedia page titles *)
(* to Wikidata ids.  Three state machines are modelled:                    *)
(*   SpecKey     site-key decomposition and make_key on one sitelink       *)
(*   SpecProcess process(): the ingestion loop and its single transaction  *)
(*   SpecMain    main(): repeated runs against the files on disk           *)
(* Strings are sequences of characters; a character is a one-character     *)
(* string, or the name of its code point ("U+0130") when not ASCII.        *)
(***************************************************************************)
EXTENDS Integers, Sequences, FiniteSets, TLC

VARIABLES
    \* ---- one sitelink through the decomposer and make_key
    kpc,        \* position: "input", "dropped", "decomposed", "keyed", "rekeyed"
    site_key,   \* the sitelinks map key, e.g. "enwiki"
    title,      \* the sitelink's title
    lang,       \* language code handed to make_key
    site,       \* site suffix handed to make_key
    key,        \* make_key's result
    key2,       \* make_key applied to the title part of key
    \* ---- process()
    ppc,        \* "loop", "commit", "done", "failed", "killed"
    num_lines,  \* the counter of main.rs:101
    txn,        \* the open read-write transaction: key -> id
    txn_open,   \* whether the transaction is still open
    begun,      \* number of env.begin_rw_txn() calls
    store,      \* what the LMDB file holds durably: key -> id
    commits,    \* number of successful txn.commit() calls
    expected,   \* history: key -> id of the last line read that produces key
    unparsed,   \* history: lines the reader yielded that were never parsed
    skipped,    \* history: a recoverable skip has happened
    \* ---- main()
    mpc,        \* position in main
    cur_version,\* version of the latest dump in this run
    published,  \* content of the published_version file
    mdb,        \* per version: state of sitelinks-V.mdb
    lock,       \* per version: whether sitelinks-V.mdb-lock exists
    zst,        \* per version: state of sitelinks-V.mdb.zst
    runs,       \* number of runs of main started
    upload_ok,  \* history: upload returned Ok in the current run
    uploaded,   \* history: per version, the artifact last handed to upload
    result,     \* history: how the last run of main ended
    at_start    \* history: the files as the current run found them

keyVars  == <<kpc, site_key, title, lang, site, key, key2>>
procVars == <<ppc, num_lines, txn, txn_open, begun, store, commits, expected, unparsed, skipped>>
mainVars == <<mpc, cur_version, published, mdb, lock, zst, runs, upload_ok, uploaded,
             result, at_start>>
vars     == <<keyVars, procVars, mainVars>>

None == "none"

(***************************************************************************)
(* Characters                                                              *)
(***************************************************************************)
Upper == <<"A","B","C","D","E","F","G","H","I","J","K","L","M",
           "N","O","P","Q","R","S","T","U","V","W","X","Y","Z">>
Lower == <<"a","b","c","d","e","f","g","h","i","j","k","l","m",
           "n","o","p","q","r","s","t","u","v","w","x","y","z">>

\* char::is_control: general category Cc
IsControl(c) == c \in {"U+0001", "U+0009", "U+0085"}

\* char::is_whitespace: the White_Space property
IsWhitespace(c) == c \in {" ", "U+0009", "U+0085", "U+00A0"}

(***************************************************************************)
(* Site-key decomposition (main.rs:133-143)                                *)
(***************************************************************************)
Marker  == <<"w","i","k","i">>
und     == <<"u","n","d">>
commons == <<"c","o","m","m","o","n","s">>
species == <<"s","p","e","c","i","e","s">>

\* whether pat occurs in s at position i
MatchAt(s, i, pat) ==
    /\ i >= 1
    /\ i + Len(pat) - 1 <= Len(s)
    /\ \A j \in 1..Len(pat) : s[i + j - 1] = pat[j]

\* str::find: the first position of pat in s, 0 when there is none
Find(s, pat) ==
    IF \E i \in 1..Len(s) : MatchAt(s, i, pat)
    THEN CHOOSE i \in 1..Len(s) :
            /\ MatchAt(s, i, pat)
            /\ \A j \in 1..(i - 1) : ~MatchAt(s, j, pat)
    ELSE 0

\* str::split(pat): the segments between the non-overlapping matches of pat,
\* found left to right
RECURSIVE Split(_, _)
Split(s, pat) ==
    LET i == Find(s, pat)
    IN  IF i = 0
        THEN <<s>>
        ELSE <<SubSeq(s, 1, i - 1)>> \o Split(SubSeq(s, i + Len(pat), Len(s)), pat)

DecomposeSwapAlways(k) ==
    LET segs  == Split(k, Marker)
        lang0 == IF segs[1] = <<>> THEN und ELSE segs[1]
    IN  IF Len(segs) < 2
        THEN [emit |-> FALSE, lang |-> lang0, site |-> <<>>]
        ELSE IF lang0 = commons \/ lang0 = species
             THEN [emit |-> TRUE, lang |-> und, site |-> lang0]
             ELSE [emit |-> TRUE, lang |-> lang0, site |-> segs[2]]

\* The body of the sitelinks loop up to the make_key call: the first two
\* items of key.split("wiki"), "und" for an empty language, and the
\* commons/species swap.  emit is FALSE when iter.next() gives no site.
Decompose(k) ==
    LET segs  == Split(k, Marker)
        lang0 == IF segs[1] = <<>> THEN und ELSE segs[1]
    IN  IF Len(segs) < 2
        THEN [emit |-> FALSE, lang |-> lang0, site |-> <<>>]
        ELSE IF segs[2] = <<>> /\ (lang0 = commons \/ lang0 = species)
             THEN [emit |-> TRUE, lang |-> und, site |-> lang0]
             ELSE [emit |-> TRUE, lang |-> lang0, site |-> segs[2]]

(***************************************************************************)
(* make_key (main.rs:155-223)                                              *)
(***************************************************************************)
\* The arms of the match on lang that give Locale::Turkic
TurkicLangs == {
    <<"a","i","b">>, <<"a","l","t">>, <<"a","t","v">>, <<"a","z">>,
    <<"b","a">>, <<"c","h","g">>, <<"c","j","s">>, <<"c","l","w">>,
    <<"c","r","h">>, <<"c","v">>, <<"d","l","g">>, <<"g","a","g">>,
    <<"i","l","i">>, <<"j","c","t">>, <<"k","a","a">>, <<"k","d","r">>,
    <<"k","i","m">>, <<"k","j","h">>, <<"k","k">>, <<"k","l","j">>,
    <<"k","m","z">>, <<"k","r","c">>, <<"k","u","m">>, <<"k","y">>,
    <<"n","o","g">>, <<"o","t","a">>, <<"o","t","k">>, <<"o","u","i">>,
    <<"q","w","m">>, <<"q","x","q">>, <<"s","a","h">>, <<"s","l","q">>,
    <<"s","t","y">>, <<"t","k">>, <<"t","r">>, <<"t","t">>,
    <<"t","y","v">>, <<"u","g">>, <<"u","u","m">>, <<"u","z">>,
    <<"x","b","o">>, <<"x","p","c">>, <<"x","q","a">>, <<"y","b","e">>,
    <<"z","k","h">>, <<"z","k","z">>}

LocaleWithoutAz(l) ==
    IF l \in TurkicLangs \ {<<"a","z">>} THEN "Turkic" ELSE "NonTurkic"

\* let locale = match lang { ... _ => Locale::NonTurkic }
Locale(l) ==
    IF l \in TurkicLangs THEN "Turkic" ELSE "NonTurkic"

IndexOf(c, s) == CHOOSE i \in 1..Len(s) : s[i] = c

FoldCharExpandFirst(c, locale) ==
    IF locale = "Turkic" /\ c = "I" THEN <<"U+0131">>
    ELSE IF locale = "Turkic" /\ c = "U+0130" THEN <<"i">>
    ELSE IF c = "U+0130" THEN <<"I", "U+0307">>
    ELSE IF c = "U+00DF" THEN <<"s", "s">>
    ELSE IF \E i \in 1..Len(Upper) : Upper[i] = c THEN <<Lower[IndexOf(c, Upper)]>>
    ELSE <<c>>

\* case_fold_with(Variant::Full, locale) on one character: the C and F
\* mappings of Unicode's CaseFolding.txt, with the T mappings of I and of
\* U+0130 in their place for Locale::Turkic
FoldChar(c, locale) ==
    IF locale = "Turkic" /\ c = "I" THEN <<"U+0131">>
    ELSE IF locale = "Turkic" /\ c = "U+0130" THEN <<"i">>
    ELSE IF c = "U+0130" THEN <<"i", "U+0307">>
    ELSE IF c = "U+00DF" THEN <<"s", "s">>
    ELSE IF \E i \in 1..Len(Upper) : Upper[i] = c THEN <<Lower[IndexOf(c, Upper)]>>
    ELSE <<c>>

\* title.case_fold_with(Variant::Full, locale) as a sequence of characters
RECURSIVE CaseFold(_, _)
CaseFold(t, locale) ==
    IF t = <<>> THEN <<>>
    ELSE FoldChar(Head(t), locale) \o CaseFold(Tail(t), locale)

\* the body of the loop over the folded characters (main.rs:216-220)
Push(c) == IF IsControl(c) \/ IsWhitespace(c) THEN "_" ELSE c

make_key_always_wiki(l, s, t) ==
    LET folded == CaseFold(t, Locale(l))
    IN  l \o <<".","w","i","k","i">> \o s \o <<":">>
          \o [i \in 1..Len(folded) |-> Push(folded[i])]

make_key(l, s, t) ==
    LET prefix == IF s # <<>> THEN l \o <<".","w","i","k","i">> \o s ELSE l
        folded == CaseFold(t, Locale(l))
    IN  prefix \o <<":">> \o [i \in 1..Len(folded) |-> Push(folded[i])]

(***************************************************************************)
(* SpecKey: one sitelink (site_key, title) through the decomposer and      *)
(* make_key, and make_key once more on the canonical title it produced.    *)
(***************************************************************************)
MaxKeyLen   == 5
MaxTitleLen == 2

KeyChars   == {"w", "i", "k", "x"}
TitleChars == {"I", "i", "U+0130", "U+0131", "U+00DF", " ", "U+0009", "_"}

SeqsUpTo(S, n) == UNION {[1..m -> S] : m \in 0..n}

wiki == Marker
OtherLangs == {<<"e","n">>, <<"d","e">>, <<"a","z","b">>, <<"t">>, <<"t","u","r">>, <<"a">>}

SampleSiteKeys ==
    {l \o wiki : l \in TurkicLangs \cup OtherLangs}
    \cup {<<"e","n","w","i","k","i","s","o","u","r","c","e">>,
          <<"c","o","m","m","o","n","s","w","i","k","i">>,
          <<"s","p","e","c","i","e","s","w","i","k","i">>,
          <<"c","o","m","m","o","n","s","w","i","k","i","s","o","u","r","c","e">>,
          <<"w","i","k","i">>,
          <<"w","i","k","i","w","i","k","i">>,
          <<"e","n","w","i","k","i","w","i","k","i">>,
          <<"e","n","w","i","k","i","x","w","i","k","i","y">>,
          <<"a","z","w","i","k","i","b","o","o","k","s">>,
          <<"n","o","m","a","r","k","e","r">>,
          <<"c","o","m","m","o","n","s">>,
          <<"w","i","k","i","d","a","t","a">>}

SampleTitles ==
    {<<"B","a","r","a","c","k"," ","O","b","a","m","a">>,
     <<"I">>,
     <<"A","U+0001","U+00A0","U+0085","U+00DF","U+0130">>}

KeyInputs ==
    (SeqsUpTo(KeyChars, MaxKeyLen) \X SampleTitles)
    \cup (SampleSiteKeys \X SeqsUpTo(TitleChars, MaxTitleLen))
    \cup (SampleSiteKeys \X SampleTitles)

\* the variables of process() and of main() while they are not modelled
ProcOff ==
    /\ ppc = "off" /\ num_lines = 0 /\ txn = <<>> /\ txn_open = FALSE /\ begun = 0
    /\ store = <<>> /\ commits = 0 /\ expected = <<>> /\ unparsed = {}
    /\ skipped = FALSE

MainOff ==
    /\ mpc = "off" /\ cur_version = 0 /\ published = 0 /\ mdb = <<>>
    /\ lock = <<>> /\ zst = <<>> /\ runs = 0 /\ upload_ok = FALSE
    /\ uploaded = <<>> /\ result = "none" /\ at_start = <<>>

KeyOff ==
    /\ kpc = "off" /\ site_key = <<>> /\ title = <<>> /\ lang = <<>>
    /\ site = <<>> /\ key = <<>> /\ key2 = <<>>

InitKey ==
    /\ \E in \in KeyInputs : site_key = in[1] /\ title = in[2]
    /\ kpc = "input"
    /\ lang = <<>> /\ site = <<>> /\ key = <<>> /\ key2 = <<>>
    /\ ProcOff /\ MainOff

\* main.rs:134-143 on the sitelink's key
DecomposeStep ==
    /\ kpc = "input"
    /\ LET d == Decompose(site_key)
       IN  /\ kpc' = IF d.emit THEN "decomposed" ELSE "dropped"
           /\ lang' = d.lang
           /\ site' = d.site
    /\ UNCHANGED <<site_key, title, key, key2, procVars, mainVars>>

\* main.rs:144: let key = make_key(lang, site, &p.title)
MakeKeyStep ==
    /\ kpc = "decomposed"
    /\ key' = make_key(lang, site, title)
    /\ kpc' = "keyed"
    /\ UNCHANGED <<site_key, title, lang, site, key2, procVars, mainVars>>

\* the part of a key after its "lang[.wikisite]:" prefix
TitlePart(k, l, s) ==
    SubSeq(k, Len(l) + (IF s # <<>> THEN 5 + Len(s) ELSE 0) + 2, Len(k))

\* make_key applied to the canonical title it has produced
RekeyStep ==
    /\ kpc = "keyed"
    /\ key2' = make_key(lang, site, TitlePart(key, lang, site))
    /\ kpc' = "rekeyed"
    /\ UNCHANGED <<site_key, title, lang, site, key, procVars, mainVars>>

NextKey == DecomposeStep \/ MakeKeyStep \/ RekeyStep

SpecKey == InitKey /\ [][NextKey]_vars

(***************************************************************************)
(* Claims about the decomposer and make_key, checked under SpecKey         *)
(***************************************************************************)
Occurrences(k) == {i \in 1..Len(k) : MatchAt(k, i, Marker)}
Least(S) == CHOOSE i \in S : \A j \in S : i <= j
Contains(t, c) == \E i \in 1..Len(t) : t[i] = c

\* the canonical title of t under a folding variant
Canonical(t, locale) ==
    LET f == CaseFold(t, locale)
    IN  [i \in 1..Len(f) |-> IF IsControl(f[i]) \/ IsWhitespace(f[i]) THEN "_" ELSE f[i]]

\* C6: the language is the text before the first "wiki" ("und" when that is
\* empty) and the site the text between the first and the second "wiki" (or
\* the end); an empty site with language commons or species swaps the two;
\* a key without "wiki" emits nothing.  enwiki gives (en, ""), enwikisource
\* (en, source), commonswiki (und, commons).
C6_Decomposition ==
    kpc # "input" =>
        LET occ == Occurrences(site_key)
        IN  IF occ = {}
            THEN kpc = "dropped"
            ELSE LET i      == Least(occ)
                     later  == {j \in occ : j >= i + 4}
                     first  == SubSeq(site_key, 1, i - 1)
                     second == IF later = {}
                               THEN SubSeq(site_key, i + 4, Len(site_key))
                               ELSE SubSeq(site_key, i + 4, Least(later) - 1)
                     l0     == IF first = <<>> THEN und ELSE first
                 IN  /\ kpc # "dropped"
                     /\ IF second = <<>> /\ l0 \in {commons, species}
                        THEN lang = und /\ site = l0
                        ELSE lang = l0 /\ site = second
                     /\ site_key = <<"e","n","w","i","k","i">> => lang = <<"e","n">> /\ site = <<>>
                     /\ site_key = <<"e","n","w","i","k","i","s","o","u","r","c","e">>
                            => lang = <<"e","n">> /\ site = <<"s","o","u","r","c","e">>
                     /\ site_key = <<"c","o","m","m","o","n","s","w","i","k","i">>
                            => lang = und /\ site = commons

C6_Witness ==
    /\ kpc = "decomposed"
    /\ site_key = <<"c","o","m","m","o","n","s","w","i","k","i","s","o","u","r","c","e">>
    /\ lang = commons

\* C7: the key is lang, then ".wiki" and site exactly when site is not
\* empty, then ":", then the folded title with every control or whitespace
\* character replaced by one underscore and every other character kept;
\* (en, "", "Barack Obama") gives "en:barack_obama".
C7_KeyEncoding ==
    kpc \in {"keyed", "rekeyed"} =>
        LET f == CaseFold(title, Locale(lang))
            p == Len(lang) + (IF site # <<>> THEN 5 + Len(site) ELSE 0) + 1
        IN  /\ Len(key) = p + Len(f)
            /\ SubSeq(key, 1, Len(lang)) = lang
            /\ site # <<>> =>
                 SubSeq(key, Len(lang) + 1, p - 1) = <<".","w","i","k","i">> \o site
            /\ key[p] = ":"
            /\ \A i \in 1..Len(f) :
                 key[p + i] = IF IsControl(f[i]) \/ IsWhitespace(f[i]) THEN "_" ELSE f[i]
            /\ (site_key = <<"e","n","w","i","k","i">> /\ title = <<"B","a","r","a","c","k"," ","O","b","a","m","a">>)
                 => key = <<"e","n",":","b","a","r","a","c","k","_","o","b","a","m","a">>

C7_Witness ==
    /\ kpc = "keyed"
    /\ site_key = <<"e","n","w","i","k","i">>
    /\ title = <<"B","a","r","a","c","k"," ","O","b","a","m","a">>

\* C8: canonicalizing a canonical title again, under the same language,
\* gives the same key.
C8_Idempotent ==
    kpc = "rekeyed" => key2 = key

C8_Witness ==
    /\ kpc = "rekeyed"
    /\ title = <<"U+0130", " ">>
    /\ lang = <<"e","n">>

\* C9: the title is folded with the Turkic variant exactly when the language
\* make_key is given is one of the Turkic codes, and with the standard full
\* folding otherwise; a title with the letter I gets different canonical
\* titles under az and en.
C9_LocaleSelection ==
    kpc \in {"keyed", "rekeyed"} =>
        LET t == TitlePart(key, lang, site)
        IN  /\ lang \in TurkicLangs => t = Canonical(title, "Turkic")
            /\ lang \notin TurkicLangs => t = Canonical(title, "NonTurkic")
            /\ Contains(title, "I") =>
                 /\ (t = Canonical(title, "Turkic")) <=> (lang \in TurkicLangs)
                 /\ TitlePart(make_key(<<"a","z">>, site, title), <<"a","z">>, site)
                      # TitlePart(make_key(<<"e","n">>, site, title), <<"e","n">>, site)

C9_Witness ==
    /\ kpc = "keyed"
    /\ lang = <<"a","z">>
    /\ Contains(title, "I")
    /\ Contains(key, "U+0131")

(***************************************************************************)
(* process() (main.rs:92-153)                                              *)
(*                                                                         *)
(* A line is [len, comma, body]: its length in bytes, whether it ends with *)
(* ",", and what serde_json makes of the text before that comma: an Entity *)
(* [id, sitelinks] with ok TRUE, or Undecodable.  sitelinks lists the      *)
(* (site key, title) pairs in the order of the BTreeMap, by site key.      *)
(***************************************************************************)
MinLineLen == 5
RecordCap  == 10000

\* text that is no Entity: from_str gives Err
Undecodable == [ok |-> FALSE, id |-> "", sitelinks |-> <<>>]

\* the "[" that opens the dump
LineBracket ==
    [len |-> 1, comma |-> FALSE, body |-> Undecodable]

\* a line that is no entity
LineGarbage ==
    [len |-> 7, comma |-> FALSE, body |-> Undecodable]

\* entity Q1 followed by ","
LineQ1 ==
    [len |-> 49, comma |-> TRUE,
     body |-> [ok |-> TRUE, id |-> "Q1", sitelinks |-> <<<<<<"e","n","w","i","k","i">>, <<"I">>>>>>]]

\* entity Q2
LineQ2 ==
    [len |-> 48, comma |-> FALSE,
     body |-> [ok |-> TRUE, id |-> "Q2", sitelinks |-> <<<<<<"e","n","w","i","k","i">>, <<"i">>>>>>]]

\* entity Q3 followed by ","
LineQ3 ==
    [len |-> 98, comma |-> TRUE,
     body |-> [ok |-> TRUE, id |-> "Q3", sitelinks |-> <<<<<<"c","o","m","m","o","n","s","w","i","k","i">>, <<"I">>>>, <<<<"d","a","t","a">>, <<"x">>>>, <<<<"e","n","w","i","k","i">>, <<"i">>>>>>]]

\* entity Q4 followed by ","
LineQ4 ==
    [len |-> 27, comma |-> TRUE,
     body |-> [ok |-> TRUE, id |-> "Q4", sitelinks |-> <<>>]]

\* entity Q5
LineQ5 ==
    [len |-> 46, comma |-> FALSE,
     body |-> [ok |-> TRUE, id |-> "Q5", sitelinks |-> <<<<<<"d","a","t","a">>, <<"I">>>>>>]]

Lines == {LineBracket, LineGarbage, LineQ1, LineQ2, LineQ3, LineQ4, LineQ5}

\* if line.ends_with(",") { line.pop(); }
Pop(line) ==
    IF line.comma
    THEN [len |-> line.len - 1, comma |-> FALSE, body |-> line.body]
    ELSE line

\* serde_json::from_str::<Entity>(&line): ok is e.is_ok()
FromStr(line) ==
    IF line.comma THEN Undecodable ELSE line.body

\* The (key, id) pairs the sitelinks loop puts for entity e, in order
\* (main.rs:133-148)
RECURSIVE Puts(_, _)
Puts(id, links) ==
    IF links = <<>> THEN <<>>
    ELSE LET d == Decompose(Head(links)[1])
         IN  (IF d.emit
              THEN << <<make_key(d.lang, d.site, Head(links)[2]), id>> >>
              ELSE <<>>) \o Puts(id, Tail(links))

\* Puts, tabulated for the entities of Lines
EntityPuts == [e \in {line.body : line \in Lines} |-> Puts(e.id, e.sitelinks)]

AllKeys ==
    UNION {{EntityPuts[e][i][1] : i \in 1..Len(EntityPuts[e])} : e \in DOMAIN EntityPuts}

NoEntries == [k \in AllKeys |-> None]

\* txn.put(*db, &key, &e.id, WriteFlags::empty()) for the first n of puts
RECURSIVE PutAll(_, _, _)
PutAll(t, puts, n) ==
    IF n = 0 \/ puts = <<>> THEN t
    ELSE PutAll([t EXCEPT ![Head(puts)[1]] = Head(puts)[2]], Tail(puts), n - 1)

PersistedOnDrop(file, t, committed) == t

\* What the store file holds once the transaction is over: its writes when
\* txn.commit() returned Ok, and what it held before when the transaction
\* was dropped (RwTransaction's Drop aborts it)
Persisted(file, t, committed) == IF committed THEN t ELSE file

InitProcess ==
    /\ ppc = "open"
    /\ num_lines = 0
    /\ txn = NoEntries
    /\ txn_open = FALSE
    /\ begun = 0
    /\ store = NoEntries
    /\ commits = 0
    /\ expected = NoEntries
    /\ unparsed = {}
    /\ skipped = FALSE
    /\ KeyOff /\ MainOff

\* main.rs:97-102: File::open(dump)? and env.begin_rw_txn()
Open ==
    /\ ppc = "open"
    /\ \/ /\ ppc' = "loop"
          /\ txn_open' = TRUE
          /\ begun' = begun + 1
       \/ /\ ppc' = "failed"
          /\ UNCHANGED <<txn_open, begun>>
    /\ UNCHANGED <<num_lines, txn, store, commits, expected, unparsed, skipped,
                   keyVars, mainVars>>

\* main.rs:104: maybe_line? on a read error; the transaction is dropped
ReadError ==
    /\ ppc = "loop"
    /\ ppc' = "failed"
    /\ txn_open' = FALSE
    /\ store' = Persisted(store, txn, FALSE)
    /\ UNCHANGED <<num_lines, txn, begun, commits, expected, unparsed, skipped,
                   keyVars, mainVars>>

\* the reader is at the end of the dump: the for loop ends
EndOfInput ==
    /\ ppc = "loop"
    /\ ppc' = "commit"
    /\ UNCHANGED <<num_lines, txn, txn_open, begun, store, commits, expected,
                   unparsed, skipped, keyVars, mainVars>>

\* history: line is the last line read that produces each of its keys
Expect(exp, line) ==
    LET puts == EntityPuts[line.body] IN PutAll(exp, puts, Len(puts))

\* main.rs:103-150: one iteration of the for loop on the next line of the
\* dump; fail_at is the put that returns an error (0: none does)
Iteration(line) ==
    /\ ppc = "loop"
    /\ IF line.len < MinLineLen
       THEN \* continue, before the line is counted
            UNCHANGED <<ppc, num_lines, txn, txn_open, store, expected,
                        unparsed, skipped>>
       ELSE LET l    == Pop(line)
                n    == num_lines + 1
                e    == FromStr(l)
                puts == EntityPuts[e]
            IN  /\ num_lines' = n
                /\ expected' = Expect(expected, line)
                /\ IF n > RecordCap
                   THEN \* break
                        /\ ppc' = "commit"
                        /\ unparsed' = unparsed \cup {line}
                        /\ UNCHANGED <<txn, txn_open, store, skipped>>
                   ELSE IF ~e.ok \/ e.sitelinks = <<>>
                   THEN \* continue
                        /\ skipped' = TRUE
                        /\ UNCHANGED <<ppc, txn, txn_open, store, unparsed>>
                   ELSE /\ skipped' = (skipped \/ Len(puts) < Len(e.sitelinks))
                        /\ UNCHANGED unparsed
                        /\ \E fail_at \in 0..Len(puts) :
                             IF fail_at = 0
                             THEN /\ txn' = PutAll(txn, puts, Len(puts))
                                  /\ UNCHANGED <<ppc, txn_open, store>>
                             ELSE \* txn.put(..)? returns the error
                                  /\ txn' = PutAll(txn, puts, fail_at - 1)
                                  /\ ppc' = "failed"
                                  /\ txn_open' = FALSE
                                  /\ store' = Persisted(store, txn', FALSE)
    /\ UNCHANGED <<begun, commits, keyVars, mainVars>>

\* main.rs:151: txn.commit()?
Commit ==
    /\ ppc = "commit"
    /\ txn_open' = FALSE
    /\ \E ok \in BOOLEAN :
         /\ store' = Persisted(store, txn, ok)
         /\ ppc' = IF ok THEN "done" ELSE "failed"
         /\ commits' = IF ok THEN commits + 1 ELSE commits
    /\ UNCHANGED <<num_lines, txn, begun, expected, unparsed, skipped,
                   keyVars, mainVars>>

\* the process is terminated while the transaction is open
Kill ==
    /\ ppc \in {"loop", "commit"}
    /\ ppc' = "killed"
    /\ txn_open' = FALSE
    /\ store' = Persisted(store, txn, FALSE)
    /\ UNCHANGED <<num_lines, txn, begun, commits, expected, unparsed, skipped,
                   keyVars, mainVars>>

NextProcess ==
    \/ Open
    \/ ReadError
    \/ EndOfInput
    \/ \E line \in Lines : Iteration(line)
    \/ Commit
    \/ Kill

SpecProcess == InitProcess /\ [][NextProcess]_vars

(***************************************************************************)
(* Claims about process(), checked under SpecProcess                       *)
(***************************************************************************)
\* C1: once process() has committed, every key of the store holds the id of
\* the last line of the input that has a sitelink encoding to that key.
C1_LastWriteWins ==
    ppc = "done" =>
        \A k \in AllKeys : store[k] # None => store[k] = expected[k]

\* C2: process() begins one transaction and commits at most once, after the
\* loop; a run that ends before the commit leaves none of the entries written
\* so far in the store, so the store is empty or the whole result of the pass.
C2_AllOrNothing ==
    /\ begun <= 1
    /\ commits <= 1
    /\ ppc \in {"loop", "commit"} => begun = 1 /\ txn_open /\ commits = 0
    /\ ppc # "done" => store = NoEntries /\ commits = 0
    /\ ppc = "done" => store = txn /\ commits = 1 /\ begun = 1

C2_Witness ==
    /\ ppc = "failed"
    /\ txn # NoEntries
    /\ num_lines >= 2
    /\ store = NoEntries

\* C3: after a line that does not decode, an entity without sitelinks or a
\* sitelink without "wiki" was skipped, every later line of the input is
\* still parsed and its entries are in the committed store.
C3_SkipAndContinue ==
    (ppc = "done" /\ skipped) =>
        \A line \in unparsed :
            LET puts == EntityPuts[line.body]
            IN  \A i \in 1..Len(puts) : store[puts[i][1]] = puts[i][2]

\* C4: the commit comes only after the last record of the input has been
\* processed, whatever the number of lines: every key produced by a line of
\* the input is in the committed store with its last writer's id.
C4_NoRecordCap ==
    /\ ppc \in {"commit", "done"} => unparsed = {}
    /\ ppc = "done" =>
         \A k \in AllKeys : expected[k] # None => store[k] = expected[k]

(***************************************************************************)
(* main() (main.rs:39-79), run repeatedly against the same directory       *)
(*                                                                         *)
(* A version is the date in the dump's file name; 0 stands for a           *)
(* published_version file that is missing or names no version.             *)
(* mdb[v]: "absent", "empty" (environment created, nothing committed) or   *)
(* "built"; zst[v]: "absent", "partial" (created, not fully written) or    *)
(* "complete".                                                             *)
(***************************************************************************)
MaxVersion == 2
MaxRuns    == 3

Versions  == 1..MaxVersion
NoVersion == 0

AlreadyPublishedNever(pub, v) == FALSE

\* main.rs:46: published.trim() == cur_version
AlreadyPublished(pub, v) == pub = v

\* fn upload (main.rs:238-240)
upload(artifact) == "Ok"

InitMain ==
    /\ mpc = "idle"
    /\ cur_version = NoVersion
    /\ published = NoVersion
    /\ mdb = [v \in Versions |-> "absent"]
    /\ lock = [v \in Versions |-> FALSE]
    /\ zst = [v \in Versions |-> "absent"]
    /\ runs = 0
    /\ upload_ok = FALSE
    /\ uploaded = [v \in Versions |-> "none"]
    /\ result = "none"
    /\ at_start = [published |-> published, mdb |-> mdb, lock |-> lock,
                   zst |-> zst, uploaded |-> uploaded]
    /\ KeyOff /\ ProcOff

\* the end of a run of main with outcome r
Return(r) ==
    /\ mpc' = "idle"
    /\ result' = r

\* main.rs:40-43: a run starts; find_latest_dump()? gives the current version
FindLatestDump ==
    /\ mpc = "idle"
    /\ runs < MaxRuns
    /\ runs' = runs + 1
    /\ upload_ok' = FALSE
    /\ at_start' = [published |-> published, mdb |-> mdb, lock |-> lock,
                    zst |-> zst, uploaded |-> uploaded]
    /\ \/ /\ \E v \in Versions : cur_version' = v
          /\ mpc' = "check"
          /\ result' = "running"
       \/ /\ Return("Err(find_latest_dump)")
          /\ UNCHANGED cur_version
    /\ UNCHANGED <<published, mdb, lock, zst, uploaded, keyVars, procVars>>

\* main.rs:44-49
CheckPublished ==
    /\ mpc = "check"
    /\ IF AlreadyPublished(published, cur_version)
       THEN Return("Ok(nothing to do)")
       ELSE mpc' = "remove" /\ UNCHANGED result
    /\ UNCHANGED <<cur_version, published, mdb, lock, zst, runs, upload_ok,
                   uploaded, at_start, keyVars, procVars>>

\* main.rs:51-57: the two remove_file calls, then zst_path.exists()
RemoveStale ==
    /\ mpc = "remove"
    /\ mdb' = [mdb EXCEPT ![cur_version] = "absent"]
    /\ lock' = [lock EXCEPT ![cur_version] = FALSE]
    /\ mpc' = IF zst[cur_version] = "absent" THEN "open" ELSE "upload"
    /\ UNCHANGED <<cur_version, published, zst, runs, upload_ok, uploaded,
                   result, at_start, keyVars, procVars>>

\* main.rs:58-66: the environment is opened (the file and its lock are
\* created) and the database created, or the run ends there
OpenEnvironment ==
    /\ mpc = "open"
    /\ \/ /\ mdb' = [mdb EXCEPT ![cur_version] = "empty"]
          /\ lock' = [lock EXCEPT ![cur_version] = TRUE]
          /\ \/ mpc' = "process" /\ UNCHANGED result
             \/ Return("Err(create_db)")
       \/ /\ Return("panic(open)")
          /\ UNCHANGED <<mdb, lock>>
    /\ UNCHANGED <<cur_version, published, zst, runs, upload_ok, uploaded,
                   at_start, keyVars, procVars>>

\* main.rs:67: process(&dump, &env, &db)?  The store holds the pass when
\* process returns Ok and nothing when it returns Err (see SpecProcess)
Process ==
    /\ mpc = "process"
    /\ \/ /\ mdb' = [mdb EXCEPT ![cur_version] = "built"]
          /\ mpc' = "compress"
          /\ UNCHANGED result
       \/ /\ Return("Err(process)")
          /\ UNCHANGED mdb
    /\ UNCHANGED <<cur_version, published, lock, zst, runs, upload_ok,
                   uploaded, at_start, keyVars, procVars>>

\* fn compress (main.rs:231-236): what File::open, File::create and
\* copy_encode leave at out_path, and the result
CompressOutcomes(db, out) ==
    {[out |-> out, res |-> "Err"],           \* File::open or File::create fails
     [out |-> "partial", res |-> "Err"],     \* copy_encode fails
     [out |-> "complete", res |-> "Ok"]}

\* main.rs:70: compress(&sitelinks_path, &zst_path)?
Compress ==
    /\ mpc = "compress"
    /\ \E o \in CompressOutcomes(mdb[cur_version], zst[cur_version]) :
         /\ zst' = [zst EXCEPT ![cur_version] = o.out]
         /\ IF o.res = "Ok"
            THEN mpc' = "cleanup" /\ UNCHANGED result
            ELSE Return("Err(compress)")
    /\ UNCHANGED <<cur_version, published, mdb, lock, runs, upload_ok,
                   uploaded, at_start, keyVars, procVars>>

\* main.rs:71-72
RemoveStore ==
    /\ mpc = "cleanup"
    /\ mdb' = [mdb EXCEPT ![cur_version] = "absent"]
    /\ lock' = [lock EXCEPT ![cur_version] = FALSE]
    /\ mpc' = "upload"
    /\ UNCHANGED <<cur_version, published, zst, runs, upload_ok, uploaded,
                   result, at_start, keyVars, procVars>>

\* main.rs:75: upload(&zst_path)?
Upload ==
    /\ mpc = "upload"
    /\ IF upload(zst[cur_version]) = "Ok"
       THEN /\ upload_ok' = TRUE
            /\ uploaded' = [uploaded EXCEPT ![cur_version] = zst[cur_version]]
            /\ mpc' = "write"
            /\ UNCHANGED result
       ELSE /\ Return("Err(upload)")
            /\ UNCHANGED <<upload_ok, uploaded>>
    /\ UNCHANGED <<cur_version, published, mdb, lock, zst, runs, at_start,
                   keyVars, procVars>>

\* main.rs:77-78: fs::write("published_version", ..)?; a failed write leaves
\* the file as it was or without a version in it
WritePublished ==
    /\ mpc = "write"
    /\ \/ /\ published' = cur_version
          /\ Return("Ok")
       \/ /\ published' \in {published, NoVersion}
          /\ Return("Err(write)")
    /\ UNCHANGED <<cur_version, mdb, lock, zst, runs, upload_ok, uploaded,
                   at_start, keyVars, procVars>>

NextMain ==
    \/ FindLatestDump
    \/ CheckPublished
    \/ RemoveStale
    \/ OpenEnvironment
    \/ Process
    \/ Compress
    \/ RemoveStore
    \/ Upload
    \/ WritePublished

SpecMain == InitMain /\ [][NextMain]_vars

(***************************************************************************)
(* Claims about main() and compress(), checked under SpecMain              *)
(***************************************************************************)
\* C5: after a compress() that failed part-way, no run uploads the partly
\* written artifact of that version nor records the version as published
\* without a complete artifact.
C5_NoPartialArtifact ==
    \A v \in Versions :
        /\ uploaded[v] # "partial"
        /\ published = v => zst[v] = "complete"

\* C10: published_version becomes V only at the end of a run in which the
\* artifact of V exists and its upload returned Ok; a run that fails in
\* process, compress or upload leaves published_version as it was; a run that
\* finds V already published returns at once and touches no file.
C10_PublishOrdering ==
    /\ (published \in Versions /\ published # at_start.published) =>
          /\ mpc = "idle" /\ result = "Ok"
          /\ published = cur_version
          /\ zst[cur_version] # "absent"
          /\ upload_ok /\ uploaded[cur_version] = zst[cur_version]
    /\ result \in {"running", "Err(process)", "Err(compress)", "Err(upload)",
                   "Err(create_db)", "panic(open)", "Err(find_latest_dump)"} =>
          published = at_start.published
    /\ (result \in {"running", "Ok(nothing to do)"} /\ mpc # "check"
           /\ at_start.published = cur_version) =>
          /\ mpc = "idle" /\ result = "Ok(nothing to do)"
          /\ at_start = [published |-> published, mdb |-> mdb, lock |-> lock,
                         zst |-> zst, uploaded |-> uploaded]
          /\ ~upload_ok

C10_Witness ==
    /\ mpc = "idle"
    /\ result = "Ok"
    /\ published = 2
    /\ at_start.published = 1
    /\ at_start.zst[2] = "absent"

\* process() is the specification checked by default
Spec == SpecProcess

====
